---- MODULE Spec2Model ----
(***************************************************************************)
(* Model of the IPv4 subnet calculator: Validador (validador.js),          *)
(* CalculadoraSubredes, ResultadoIp (resultado-ip.js), GestorInterfaz and  *)
(* AplicacionCalculadoraIP (script.js).                                    *)
(*                                                                         *)
(* A JavaScript string is a sequence of one-character strings.  A          *)
(* JavaScript number is a record [nan, hi, lo] standing for hi*2^16 + lo   *)
(* (0 <= lo < 2^16), or for NaN: the model checker's integers are 32 bits  *)
(* wide and cannot hold 2^32, the numbers of the program can.              *)
(***************************************************************************)
EXTENDS Integers, Sequences, FiniteSets, TLC

----------------------------------------------------------------------------
(* Strings *)

Digits == <<"0", "1", "2", "3", "4", "5", "6", "7", "8", "9">>

IsDigit(c) == \E i \in 1..10 : Digits[i] = c

DigitValue(c) == (CHOOSE i \in 1..10 : Digits[i] = c) - 1

AllDigits(s) == \A i \in 1..Len(s) : IsDigit(s[i])

\* String.prototype.trim, for the white space " "
RECURSIVE TrimLeft(_)
TrimLeft(s) == IF s # <<>> /\ Head(s) = " " THEN TrimLeft(Tail(s)) ELSE s

RECURSIVE TrimRight(_)
TrimRight(s) ==
    IF s # <<>> /\ s[Len(s)] = " " THEN TrimRight(SubSeq(s, 1, Len(s) - 1)) ELSE s

Trim(s) == TrimRight(TrimLeft(s))

\* String.prototype.split('.'): the pieces between the dots, "" gives [""]
RECURSIVE SplitFrom(_, _, _)
SplitFrom(s, i, cur) ==
    IF i > Len(s) THEN <<cur>>
    ELSE IF s[i] = "." THEN <<cur>> \o SplitFrom(s, i + 1, <<>>)
    ELSE SplitFrom(s, i + 1, Append(cur, s[i]))

Split(s) == SplitFrom(s, 1, <<>>)

\* Array.prototype.join('.')
RECURSIVE Join(_)
Join(parts) ==
    IF parts = <<>> THEN <<>>
    ELSE IF Len(parts) = 1 THEN parts[1]
    ELSE parts[1] \o <<".">> \o Join(Tail(parts))

\* the decimal value of a string of digits
RECURSIVE DecimalValue(_)
DecimalValue(s) ==
    IF s = <<>> THEN 0
    ELSE 10 * DecimalValue(SubSeq(s, 1, Len(s) - 1)) + DigitValue(s[Len(s)])

\* Number.prototype.toString(10) of an integer n >= 0
RECURSIVE DecimalString(_)
DecimalString(n) ==
    IF n < 10 THEN <<Digits[n + 1]>>
    ELSE Append(DecimalString(n \div 10), Digits[(n % 10) + 1])

\* Number.prototype.toString(2) of an integer n >= 0
RECURSIVE BinaryString(_)
BinaryString(n) ==
    IF n < 2 THEN <<Digits[n + 1]>>
    ELSE Append(BinaryString(n \div 2), Digits[(n % 2) + 1])

\* String.prototype.padStart(n, '0')
RECURSIVE PadStart(_, _)
PadStart(s, n) == IF Len(s) >= n THEN s ELSE PadStart(<<"0">> \o s, n)

\* '1'.repeat(n), '0'.repeat(n)
Repeat(c, n) == [i \in 1..n |-> c]

\* parseInt(s, 2) of a string of binary digits
RECURSIVE ParseBinary(_)
ParseBinary(s) ==
    IF s = <<>> THEN 0
    ELSE 2 * ParseBinary(SubSeq(s, 1, Len(s) - 1)) + DigitValue(s[Len(s)])

\* the number of characters of s equal to c: split('').filter(b => b === c).length
CountChar(s, c) == Cardinality({i \in 1..Len(s) : s[i] = c})

----------------------------------------------------------------------------
(* Numbers *)

Base == 2 ^ 16

NaN == [nan |-> TRUE, hi |-> 0, lo |-> 0]

\* the number with the integer value n (n within the model checker's integers)
Num(n) == [nan |-> FALSE, hi |-> n \div Base, lo |-> n % Base]

NumPair(h, l) == [nan |-> FALSE, hi |-> h, lo |-> l]

IsNaN(x) == x.nan

\* x + y
NumAdd(x, y) ==
    IF x.nan \/ y.nan THEN NaN
    ELSE NumPair(x.hi + y.hi + ((x.lo + y.lo) \div Base), (x.lo + y.lo) % Base)

\* x - y
NumSub(x, y) ==
    IF x.nan \/ y.nan THEN NaN
    ELSE NumPair(x.hi - y.hi + ((x.lo - y.lo) \div Base), (x.lo - y.lo) % Base)

\* x < y, x >= y (false when either is NaN)
NumLess(x, y) ==
    /\ ~x.nan /\ ~y.nan
    /\ (x.hi < y.hi \/ (x.hi = y.hi /\ x.lo < y.lo))

NumGeq(x, y) ==
    /\ ~x.nan /\ ~y.nan
    /\ (x.hi > y.hi \/ (x.hi = y.hi /\ x.lo >= y.lo))

\* ToUint32: the value modulo 2^32, NaN gives 0
ToUint32(x) == IF x.nan THEN Num(0) ELSE NumPair(x.hi % Base, x.lo)

\* ToInt32: the value modulo 2^32 read as two's complement, NaN gives 0
ToInt32(x) ==
    IF x.nan THEN Num(0)
    ELSE LET h == x.hi % Base
         IN  NumPair(IF h >= Base \div 2 THEN h - Base ELSE h, x.lo)

RECURSIVE AndBits(_, _)
AndBits(a, b) ==
    IF a = 0 \/ b = 0 THEN 0
    ELSE (a % 2) * (b % 2) + 2 * AndBits(a \div 2, b \div 2)

RECURSIVE OrBits(_, _)
OrBits(a, b) ==
    IF a = 0 THEN b
    ELSE IF b = 0 THEN a
    ELSE (IF a % 2 = 1 \/ b % 2 = 1 THEN 1 ELSE 0) + 2 * OrBits(a \div 2, b \div 2)

\* x & y
BitAnd(x, y) ==
    LET a == ToUint32(x)
        b == ToUint32(y)
    IN  ToInt32(NumPair(AndBits(a.hi, b.hi), AndBits(a.lo, b.lo)))

\* x | y
BitOr(x, y) ==
    LET a == ToUint32(x)
        b == ToUint32(y)
    IN  ToInt32(NumPair(OrBits(a.hi, b.hi), OrBits(a.lo, b.lo)))

\* ~x
BitNot(x) ==
    LET a == ToUint32(x)
    IN  ToInt32(NumPair(Base - 1 - a.hi, Base - 1 - a.lo))

\* x << k for k in {8, 16, 24}: ToInt32(x) shifted, the bits past 32 dropped
ShiftLeft(x, k) ==
    LET a == ToUint32(x)
    IN  CASE k = 24 -> ToInt32(NumPair((a.lo % 256) * 256, 0))
          [] k = 16 -> ToInt32(NumPair(a.lo, 0))
          [] k = 8  -> ToInt32(NumPair(((a.hi * 256) + (a.lo \div 256)) % Base,
                                       (a.lo % 256) * 256))

\* x >>> k for k in {0, 8, 16, 24}
ShiftRightU(x, k) ==
    LET a == ToUint32(x)
    IN  CASE k = 0  -> a
          [] k = 8  -> NumPair(a.hi \div 256, (a.hi % 256) * 256 + (a.lo \div 256))
          [] k = 16 -> NumPair(0, a.hi)
          [] k = 24 -> NumPair(0, a.hi \div 256)

\* Math.pow(2, n) for 0 <= n <= 46
Pow2(n) == IF n < 16 THEN NumPair(0, 2 ^ n) ELSE NumPair(2 ^ (n - 16), 0)

\* Number(s) of a piece of a split string: "" is 0, digits are their decimal
\* value, anything else is NaN
ToNumber(s) == IF AllDigits(s) THEN Num(DecimalValue(s)) ELSE NaN

\* the value of a number that fits the model checker's integers
NumValue(x) == x.hi * Base + x.lo

\* JavaScript values handed to a parameter documented as number|string
JSStr(s) == [tipo |-> "string", str |-> s, num |-> 0]

JSNum(n) == [tipo |-> "number", str |-> <<>>, num |-> n]

\* String(v): an integer number prints in decimal, with its sign
StringOf(v) ==
    IF v.tipo = "string" THEN v.str
    ELSE IF v.num < 0 THEN <<"-">> \o DecimalString(0 - v.num)
    ELSE DecimalString(v.num)

\* the longest prefix of s made of digits
RECURSIVE DigitPrefix(_)
DigitPrefix(s) ==
    IF s = <<>> \/ ~IsDigit(Head(s)) THEN <<>>
    ELSE <<Head(s)>> \o DigitPrefix(Tail(s))

\* parseInt(v): white space is skipped, then an optional sign, then the longest
\* run of digits is read and whatever follows it is ignored; no digit gives NaN
ParseInt(v) ==
    LET t == TrimLeft(StringOf(v))
        signed == t # <<>> /\ Head(t) \in {"-", "+"}
        d == DigitPrefix(IF signed THEN Tail(t) ELSE t)
    IN  IF d = <<>> THEN NaN
        ELSE IF signed /\ Head(t) = "-" THEN Num(0 - DecimalValue(d))
        ELSE Num(DecimalValue(d))

----------------------------------------------------------------------------
(* Validador *)

MaxHosts == 16777214

\* OctetoRegex with the group written [0-9]{1,3}: the range 0..255 not enforced
OctetoRegex_sinRango(p) == AllDigits(p) /\ Len(p) >= 1 /\ Len(p) <= 3

\* one group of ipRegex: 25[0-5] | 2[0-4][0-9] | [01]?[0-9][0-9]?
OctetoRegex(p) ==
    /\ AllDigits(p)
    /\ \/ Len(p) = 3 /\ p[1] = "2" /\ p[2] = "5" /\ DigitValue(p[3]) <= 5
       \/ Len(p) = 3 /\ p[1] = "2" /\ DigitValue(p[2]) <= 4
       \/ Len(p) = 3 /\ p[1] \in {"0", "1"}
       \/ Len(p) = 2
       \/ Len(p) = 1

\* ipRegex.test(ip): four groups separated by three dots, anchored at both ends
ipRegex(ip) ==
    LET partes == Split(ip)
    IN  Len(partes) = 4 /\ \A i \in 1..4 : OctetoRegex(partes[i])

esDireccionIPValida(ip) ==
    IF ip = <<>> THEN FALSE
    ELSE IF ~ipRegex(ip) THEN FALSE
    ELSE LET octetos == [i \in 1..4 |-> ToNumber(Split(ip)[i])]
         IN  IF \A i \in 1..4 : octetos[i] = Num(0) THEN FALSE
             ELSE IF \A i \in 1..4 : octetos[i] = Num(255) THEN FALSE
             ELSE TRUE

\* /^1*0*$/.test(s)
patronMascara(s) ==
    \E k \in 0..Len(s) :
        /\ \A i \in 1..k : s[i] = "1"
        /\ \A i \in (k + 1)..Len(s) : s[i] = "0"

\* octetos.map(o => o.toString(2).padStart(8, '0')).join('') of mascara.split('.')
RECURSIVE ConcatAll(_)
ConcatAll(ss) == IF ss = <<>> THEN <<>> ELSE Head(ss) \o ConcatAll(Tail(ss))

\* OctetoBinario without padStart(8, '0')
OctetoBinario_sinPad(p) ==
    LET n == ToNumber(p)
    IN  IF IsNaN(n) THEN <<"N", "a", "N">> ELSE BinaryString(NumValue(n))

OctetoBinario(p) ==
    LET n == ToNumber(p)
    IN  IF IsNaN(n) THEN PadStart(<<"N", "a", "N">>, 8)
        ELSE PadStart(BinaryString(NumValue(n)), 8)

MascaraBinaria(mascara) ==
    LET partes == Split(mascara)
    IN  ConcatAll([i \in 1..Len(partes) |-> OctetoBinario(partes[i])])

esMascaraSubredValida(mascara) ==
    IF ~esDireccionIPValida(mascara) THEN FALSE
    ELSE patronMascara(MascaraBinaria(mascara))

esNumeroHostsValido(hosts) ==
    LET numHosts == ParseInt(hosts)
    IN  IF IsNaN(numHosts) \/ NumLess(numHosts, Num(1)) THEN FALSE
        ELSE IF NumLess(Num(MaxHosts), numHosts) THEN FALSE
        ELSE TRUE

\* obtenerClaseIP: 'A'..'E', or null ("null" here)
obtenerClaseIP(ip) ==
    IF ~esDireccionIPValida(ip) THEN "null"
    ELSE LET primerOcteto == NumValue(ParseInt(JSStr(Split(ip)[1])))
         IN  IF primerOcteto >= 1 /\ primerOcteto <= 126 THEN "A"
             ELSE IF primerOcteto >= 128 /\ primerOcteto <= 191 THEN "B"
             ELSE IF primerOcteto >= 192 /\ primerOcteto <= 223 THEN "C"
             ELSE IF primerOcteto >= 224 /\ primerOcteto <= 239 THEN "D"
             ELSE IF primerOcteto >= 240 /\ primerOcteto <= 255 THEN "E"
             ELSE "null"

MsgIPVacia == "Por favor, ingresa una direccion IP."
MsgIPCero == "La direccion 0.0.0.0 no es valida para calculos de subred."
MsgIPBroadcast == "La direccion 255.255.255.255 es una direccion de broadcast global."
MsgIPInvalida == "Por favor, ingresa una direccion IP valida (ej: 192.168.1.100)."
MsgMascaraVacia == "Por favor, ingresa una mascara de subred."
MsgMascaraInvalida == "Por favor, ingresa una mascara de subred valida (ej: 255.255.255.0)."
MsgHostsVacio == "Por favor, ingresa el numero de hosts."
MsgHostsMenor == "El numero de hosts debe ser mayor a 0."
MsgHostsMayor == "El numero de hosts es demasiado grande (maximo: 16,777,214)."
MsgHostsInvalido == "Por favor, ingresa un numero valido de hosts (minimo 1)."
MsgValidacion == "Error en la validacion de datos."

Retorna(m) == [lanza |-> FALSE, mensaje |-> m]

\* valor.trim is not a function: a TypeError
LanzaTypeError == [lanza |-> TRUE, mensaje |-> "TypeError"]

\* !valor || valor.trim() === '': a number has no trim, and the call throws
\* unless !valor already decided (the number is 0)
Vacio(valor) ==
    IF valor.tipo = "string"
    THEN [lanza |-> FALSE, vacio |-> valor.str = <<>> \/ Trim(valor.str) = <<>>]
    ELSE IF valor.num = 0 THEN [lanza |-> FALSE, vacio |-> TRUE]
    ELSE [lanza |-> TRUE, vacio |-> FALSE]

Literal(s) == Join(<<s, s, s, s>>)

obtenerMensajeError(tipo, valor) ==
    LET v == Vacio(valor)
    IN  CASE tipo = "ip" ->
               IF v.lanza THEN LanzaTypeError
               ELSE IF v.vacio THEN Retorna(MsgIPVacia)
               ELSE IF valor.str = Literal(<<"0">>) THEN Retorna(MsgIPCero)
               ELSE IF valor.str = Literal(<<"2", "5", "5">>) THEN Retorna(MsgIPBroadcast)
               ELSE Retorna(MsgIPInvalida)
          [] tipo = "mascara" ->
               IF v.lanza THEN LanzaTypeError
               ELSE IF v.vacio THEN Retorna(MsgMascaraVacia)
               ELSE Retorna(MsgMascaraInvalida)
          [] tipo = "hosts" ->
               IF v.lanza THEN LanzaTypeError
               ELSE IF v.vacio THEN Retorna(MsgHostsVacio)
               ELSE LET numHosts == ParseInt(valor)
                    IN  IF NumLess(numHosts, Num(1)) THEN Retorna(MsgHostsMenor)
                        ELSE IF NumLess(Num(MaxHosts), numHosts) THEN Retorna(MsgHostsMayor)
                        ELSE Retorna(MsgHostsInvalido)
          [] OTHER -> Retorna(MsgValidacion)

\* the outcome of a call: it returns {esValido, mensaje} or it throws
Valido == [lanza |-> FALSE, esValido |-> TRUE, mensaje |-> "null"]

Invalido(m) ==
    IF m.lanza THEN [lanza |-> TRUE, esValido |-> FALSE, mensaje |-> m.mensaje]
    ELSE [lanza |-> FALSE, esValido |-> FALSE, mensaje |-> m.mensaje]

\* validarEntradaCompleta checking the field of the mode before the IP
validarEntradaCompleta_modoPrimero(ip, tipoEntrada, mascara, numeroHosts) ==
    IF tipoEntrada = "hosts" /\ ~esNumeroHostsValido(numeroHosts)
    THEN Invalido(obtenerMensajeError("hosts", numeroHosts))
    ELSE IF tipoEntrada = "mascara" /\ ~esMascaraSubredValida(mascara)
    THEN Invalido(obtenerMensajeError("mascara", JSStr(mascara)))
    ELSE IF ~esDireccionIPValida(ip) THEN Invalido(obtenerMensajeError("ip", JSStr(ip)))
    ELSE Valido

validarEntradaCompleta(ip, tipoEntrada, mascara, numeroHosts) ==
    IF ~esDireccionIPValida(ip) THEN Invalido(obtenerMensajeError("ip", JSStr(ip)))
    ELSE IF tipoEntrada = "hosts"
    THEN IF ~esNumeroHostsValido(numeroHosts)
         THEN Invalido(obtenerMensajeError("hosts", numeroHosts))
         ELSE Valido
    ELSE IF tipoEntrada = "mascara"
    THEN IF ~esMascaraSubredValida(mascara)
         THEN Invalido(obtenerMensajeError("mascara", JSStr(mascara)))
         ELSE Valido
    ELSE Valido

----------------------------------------------------------------------------
(* CalculadoraSubredes *)

\* octetos[i] of ip.split('.').map(Number); past the end it is undefined, which
\* the shifts read as 0 and the addition as NaN
Octeto(ip, i) ==
    LET partes == Split(ip)
    IN  IF i <= Len(partes) THEN ToNumber(partes[i]) ELSE NaN

ipANumero(ip) ==
    NumAdd(NumAdd(NumAdd(ShiftLeft(Octeto(ip, 1), 24), ShiftLeft(Octeto(ip, 2), 16)),
                  ShiftLeft(Octeto(ip, 3), 8)),
           Octeto(ip, 4))

numeroAIp(numero) ==
    Join(<<DecimalString(NumValue(BitAnd(ShiftRightU(numero, 24), Num(255)))),
           DecimalString(NumValue(BitAnd(ShiftRightU(numero, 16), Num(255)))),
           DecimalString(NumValue(BitAnd(ShiftRightU(numero, 8), Num(255)))),
           DecimalString(NumValue(BitAnd(numero, Num(255))))>>)

\* Math.ceil(Math.log2(n)) for an integer n >= 1: the least k with 2^k >= n
\* (Math.log2 is exact at the powers of two)
RECURSIVE CeilLog2From(_, _)
CeilLog2From(n, k) == IF 2 ^ k >= n THEN k ELSE CeilLog2From(n, k + 1)

CeilLog2(n) == CeilLog2From(n, 0)

\* the four octets of a 32-character binary string: substr(i * 8, 8), parseInt(_, 2)
OctetosDeBinaria(binaria) ==
    Join([i \in 1..4 |->
            DecimalString(ParseBinary(SubSeq(binaria, (i - 1) * 8 + 1, i * 8)))])

\* calcularMascaraDesdeHosts without the two reserved addresses: log2(hosts)
calcularMascaraDesdeHosts_sinReserva(hosts) ==
    LET bitsHost == CeilLog2(hosts)
        bitsRed == 32 - bitsHost
        mascaraBinaria == Repeat("1", bitsRed) \o Repeat("0", bitsHost)
    IN  OctetosDeBinaria(mascaraBinaria)

calcularMascaraDesdeHosts(hosts) ==
    LET bitsHost == CeilLog2(hosts + 2)
        bitsRed == 32 - bitsHost
        mascaraBinaria == Repeat("1", bitsRed) \o Repeat("0", bitsHost)
    IN  OctetosDeBinaria(mascaraBinaria)

\* calcularMascaraDesdeHosts handed a string of digits, which the parameter does
\* not refuse: hosts + 2 appends '2' to the text and Math.log2 reads the result
\* as a number
calcularMascaraDesdeHostsTexto(hosts) ==
    LET bitsHost == CeilLog2(NumValue(ToNumber(hosts \o <<"2">>)))
        bitsRed == 32 - bitsHost
        mascaraBinaria == Repeat("1", bitsRed) \o Repeat("0", bitsHost)
    IN  OctetosDeBinaria(mascaraBinaria)

\* calcularHostsDesdeMascara without the - 2
calcularHostsDesdeMascara_sinRestar(mascara) ==
    Pow2(CountChar(MascaraBinaria(mascara), "0"))

calcularHostsDesdeMascara(mascara) ==
    LET bitsHost == CountChar(MascaraBinaria(mascara), "0")
    IN  NumSub(Pow2(bitsHost), Num(2))

calcularIpRed(ip, mascara) ==
    LET ipNum == ipANumero(ip)
        mascaraNum == ipANumero(mascara)
        redNum == BitAnd(ipNum, mascaraNum)
    IN  numeroAIp(redNum)

\* calcularIpBroadcast without the ~ on the mask
calcularIpBroadcast_sinNot(ipRed, mascara) ==
    LET redNum == ipANumero(ipRed)
        mascaraNum == ipANumero(mascara)
        broadcastNum == BitOr(redNum, ShiftRightU(mascaraNum, 0))
    IN  numeroAIp(broadcastNum)

calcularIpBroadcast(ipRed, mascara) ==
    LET redNum == ipANumero(ipRed)
        mascaraNum == ipANumero(mascara)
        broadcastNum == BitOr(redNum, ShiftRightU(BitNot(mascaraNum), 0))
    IN  numeroAIp(broadcastNum)

calcularPrimerHost(ipRed) ==
    LET redNum == ipANumero(ipRed)
    IN  numeroAIp(NumAdd(redNum, Num(1)))

\* calcularUltimoHost without the - 1
calcularUltimoHost_sinRestar(ipBroadcast) ==
    LET broadcastNum == ipANumero(ipBroadcast)
    IN  numeroAIp(broadcastNum)

calcularUltimoHost(ipBroadcast) ==
    LET broadcastNum == ipANumero(ipBroadcast)
    IN  numeroAIp(NumSub(broadcastNum, Num(1)))

calcularGateway(ipRed) == calcularPrimerHost(ipRed)

\* new ResultadoIp(...)
ResultadoIp(networkIP, subnetMask, broadcastIP, firstHostIP, lastHostIP, gatewayIP, totalHosts) ==
    [networkIP |-> networkIP, subnetMask |-> subnetMask, broadcastIP |-> broadcastIP,
     firstHostIP |-> firstHostIP, lastHostIP |-> lastHostIP, gatewayIP |-> gatewayIP,
     totalHosts |-> totalHosts]

calcularSubredCompleta(ip, mascara) ==
    LET ipRed == calcularIpRed(ip, mascara)
        ipBroadcast == calcularIpBroadcast(ipRed, mascara)
        primerHost == calcularPrimerHost(ipRed)
        ultimoHost == calcularUltimoHost(ipBroadcast)
        gateway == calcularGateway(ipRed)
        totalHosts == calcularHostsDesdeMascara(mascara)
    IN  ResultadoIp(ipRed, mascara, ipBroadcast, primerHost, ultimoHost, gateway,
                    totalHosts)

\* a JavaScript call gets its arguments as values already computed: the one
\* element of a set is such a value
Valor(S) == CHOOSE v \in S : TRUE

calcularSubredPorHosts(ip, hosts) ==
    Valor({calcularSubredCompleta(ip, mascara) :
             mascara \in {calcularMascaraDesdeHosts(hosts)}})

calcularDesdeHosts(ip, hosts) == calcularSubredPorHosts(ip, hosts)

calcularDesdeMascara(ip, mascara) == calcularSubredCompleta(ip, mascara)

\* ResultadoIp.esValido: every string non-empty and totalHosts >= 0
ResultadoEsValido(r) ==
    /\ r.networkIP # <<>> /\ r.subnetMask # <<>> /\ r.broadcastIP # <<>>
    /\ r.firstHostIP # <<>> /\ r.lastHostIP # <<>> /\ r.gatewayIP # <<>>
    /\ NumGeq(r.totalHosts, Num(0))

\* i * x for a small non-negative integer i
NumTimes(i, x) ==
    IF x.nan THEN NaN
    ELSE NumPair(i * x.hi + ((i * x.lo) \div Base), (i * x.lo) % Base)

\* Math.pow(2, bitsRed - 8): a power of two, or the fraction 1 / 2^(8 - bitsRed)
Pow2Fraccion(n) == IF n >= 0 THEN Pow2(n) ELSE [nan |-> FALSE, inverso |-> 2 ^ (0 - n)]

obtenerInfoAdicional(mascara) ==
    LET mascaraBinaria == MascaraBinaria(mascara)
        bitsRed == CountChar(mascaraBinaria, "1")
        bitsHost == 32 - bitsRed
        numeroSubredes == Pow2Fraccion(bitsRed - 8)
    IN  [notacionCIDR |-> bitsRed, bitsRed |-> bitsRed, bitsHost |-> bitsHost,
         numeroSubredes |-> numeroSubredes, mascaraBinaria |-> mascaraBinaria]

\* the outcome of dividirEnSubredes: the list returned, or the Error thrown
ListaSubredes(subredes) == [lanza |-> FALSE, subredes |-> subredes]

ErrorCapacidad == [lanza |-> TRUE, subredes |-> <<>>]

\* the limit at 29 bits
CapacidadExcedida_limite29(nuevaBitsRed) == nuevaBitsRed > 29

\* nuevaBitsRed > 30
CapacidadExcedida(nuevaBitsRed) == nuevaBitsRed > 30

\* the new mask one bit short
NuevaMascara_unBitMenos(nuevaBitsRed) ==
    OctetosDeBinaria(Repeat("1", nuevaBitsRed - 1) \o Repeat("0", 33 - nuevaBitsRed))

\* nuevaMascaraBinaria cut into octets and joined
NuevaMascara(nuevaBitsRed) ==
    OctetosDeBinaria(Repeat("1", nuevaBitsRed) \o Repeat("0", 32 - nuevaBitsRed))

\* the blocks counted from 1
DesplazamientoSubred_desdeUno(i, tamanoSubred) == NumTimes(i + 1, tamanoSubred)

\* i * tamañoSubred
DesplazamientoSubred(i, tamanoSubred) == NumTimes(i, tamanoSubred)

\* the additional bits rounded down: floor(log2(numeroSubredes))
NuevaBitsRed_sinTecho(mascara, numeroSubredes) ==
    LET techo == CeilLog2(numeroSubredes)
        bitsAdicionales == IF 2 ^ techo = numeroSubredes THEN techo ELSE techo - 1
        infoActual == obtenerInfoAdicional(mascara)
    IN  infoActual.bitsRed + bitsAdicionales

\* infoActual.bitsRed + bitsAdicionales
NuevaBitsRed(mascara, numeroSubredes) ==
    LET bitsAdicionales == CeilLog2(numeroSubredes)
        infoActual == obtenerInfoAdicional(mascara)
    IN  infoActual.bitsRed + bitsAdicionales

\* the list the loop builds: i of the loop runs from 0, the index of the list from 1
SubredesDesde(redPrincipal, tamanoSubred, mascaraSubred, numeroSubredes) ==
    [i \in 1..numeroSubredes |->
        Valor({calcularSubredCompleta(ipSubred, mascaraSubred) :
                 ipSubred \in {numeroAIp(NumAdd(redPrincipal,
                                 DesplazamientoSubred(i - 1, tamanoSubred)))}})]

\* dividirEnSubredes for an integer numeroSubredes >= 1
dividirEnSubredes(ip, mascara, numeroSubredes) ==
    Valor({IF CapacidadExcedida(nuevaBitsRed) THEN ErrorCapacidad
           ELSE Valor({ListaSubredes(SubredesDesde(redPrincipal, tamanoSubred,
                                                   mascaraSubred, numeroSubredes)) :
                         mascaraSubred \in {NuevaMascara(nuevaBitsRed)},
                         tamanoSubred \in {Pow2(32 - nuevaBitsRed)},
                         redPrincipal \in {ipANumero(calcularIpRed(ip, mascara))}}) :
             nuevaBitsRed \in {NuevaBitsRed(mascara, numeroSubredes)}})

\* ipEstaEnSubred without the mask
ipEstaEnSubred_sinMascara(ip, ipRed, mascara) ==
    LET ipNum == ipANumero(ip)
        redNum == ipANumero(ipRed)
    IN  ~ipNum.nan /\ ~redNum.nan /\ ipNum = redNum

\* ipEstaEnSubred: === is false when redNum is NaN; ipNum & mascaraNum never is
ipEstaEnSubred(ip, ipRed, mascara) ==
    LET ipNum == ipANumero(ip)
        redNum == ipANumero(ipRed)
        mascaraNum == ipANumero(mascara)
    IN  ~redNum.nan /\ BitAnd(ipNum, mascaraNum) = redNum

\* [...listaHosts].sort((a, b) => b - a): the numbers from the largest to the least
RECURSIVE Insertar(_, _)
Insertar(h, ordenados) ==
    IF ordenados = <<>> THEN <<h>>
    ELSE IF h >= Head(ordenados) THEN <<h>> \o ordenados
    ELSE <<Head(ordenados)>> \o Insertar(h, Tail(ordenados))

\* the list left as it was given
OrdenarDescendente_sinOrdenar(lista) == lista

RECURSIVE OrdenarDescendente(_)
OrdenarDescendente(lista) ==
    IF lista = <<>> THEN <<>>
    ELSE Insertar(Head(lista), OrdenarDescendente(Tail(lista)))

\* (hosts / disponibles * 100).toFixed(2) + '%' for integers 0 <= hosts and
\* 0 <= disponibles: the quotient rounded to the nearest hundredth (it is never
\* half way between two), 'NaN' for 0 / 0
Eficiencia(hosts, disponibles) ==
    IF disponibles = 0 THEN <<"N", "a", "N", "%">>
    ELSE LET entero == (hosts * 100) \div disponibles
             resto == (hosts * 100) % disponibles
             cent == (resto * 100) \div disponibles
             resto2 == (resto * 100) % disponibles
             c == entero * 100 + cent + (IF 2 * resto2 >= disponibles THEN 1 ELSE 0)
         IN  DecimalString(c \div 100) \o <<".">> \o PadStart(DecimalString(c % 100), 2)
                 \o <<"%">>

\* optimizarSubredes for a list of integers >= 0; indice counts from 0
optimizarSubredes(listaHosts) ==
    LET hostsOrdenados == OrdenarDescendente(listaHosts)
    IN  [index \in 1..Len(hostsOrdenados) |->
            LET hosts == hostsOrdenados[index]
                mascara == calcularMascaraDesdeHosts(hosts)
                info == obtenerInfoAdicional(mascara)
            IN  [indice |-> index - 1,
                 hostsRequeridos |-> hosts,
                 hostsDisponibles |-> calcularHostsDesdeMascara(mascara),
                 mascara |-> mascara,
                 notacionCIDR |-> info.notacionCIDR,
                 eficiencia |-> Eficiencia(hosts,
                                           NumValue(calcularHostsDesdeMascara(mascara)))]]

----------------------------------------------------------------------------
(* GestorInterfaz and AplicacionCalculadoraIP: the form *)

VARIABLES
    entradaIP,          \* entradaIP.value
    entradaHosts,       \* entradaHosts.value
    entradaMascara,     \* entradaMascara.value
    tipoEntrada,        \* selectorTipoEntrada.value
    mensajeError,       \* mensajeError.textContent
    errorVisible,       \* mensajeError.style.display = 'block'
    resultadosVisible,  \* seccionResultados.style.display = 'block'
    elementos,          \* the text of the seven result elements
    evento,             \* the last event handled
    envio,              \* what the last submit read, validated and calculated
    llamada             \* the last direct call of a library function, with its result

vars == <<entradaIP, entradaHosts, entradaMascara, tipoEntrada, mensajeError,
          errorVisible, resultadosVisible, elementos, evento, envio, llamada>>

formVars == <<entradaIP, entradaHosts, entradaMascara, tipoEntrada, mensajeError,
              errorVisible, resultadosVisible, elementos, evento, envio>>

MsgErrorInterno == "Error interno al procesar los datos. Por favor, intentelo de nuevo."
MsgResultadoInvalido == "Error: Los resultados del calculo no son validos."

\* a dotted address written from four octet values
Dir(a, b, c, d) ==
    Join(<<DecimalString(a), DecimalString(b), DecimalString(c), DecimalString(d)>>)

SinResultado == ResultadoIp(<<>>, <<>>, <<>>, <<>>, <<>>, <<>>, Num(0))

\* the values of the selector: the two the validator knows and any other one
TiposEntrada == {"hosts", "mascara", "otro"}

\* what the user types in the fields
IPsFormulario ==
    {<<>>, Dir(0, 0, 0, 0), Dir(192, 168, 1, 100), <<" ">> \o Dir(10, 0, 0, 50) \o <<" ">>}

HostsFormulario ==
    {<<>>, <<"0">>, <<"5", "0">>, <<"-", "5">>, <<"a">>,
     DecimalString(MaxHosts), DecimalString(MaxHosts + 1)}

MascarasFormulario ==
    {<<>>, Dir(255, 255, 255, 0), Dir(255, 0, 255, 0), Dir(255, 255, 255, 255)}

\* obtenerDatosFormulario: parseInt(...) || 0 turns NaN and 0 into 0
obtenerDatosFormulario ==
    LET n == ParseInt(JSStr(Trim(entradaHosts)))
    IN  [ip |-> Trim(entradaIP),
         tipoEntrada |-> tipoEntrada,
         numeroHosts |-> JSNum(IF IsNaN(n) THEN 0 ELSE NumValue(n)),
         mascara |-> Trim(entradaMascara)]

SinEnvio ==
    [datos |-> [ip |-> <<>>, tipoEntrada |-> "", numeroHosts |-> JSNum(0), mascara |-> <<>>],
     validacion |-> Valido,
     calculo |-> "ninguno"]

\* no library function called yet
SinLlamada ==
    [fn |-> "ninguna", ip |-> <<>>, mascara |-> <<>>, hosts |-> JSNum(0), tipo |-> "",
     numero |-> Num(0), ret |-> FALSE]

\* ocultarError left without effect
ocultarError_sinEfecto == UNCHANGED errorVisible

\* ocultarError
ocultarError == errorVisible' = FALSE

\* limpiarResultados leaving the results section as it is
limpiarResultados_sinOcultar ==
    /\ ocultarError
    /\ UNCHANGED <<resultadosVisible, mensajeError, elementos>>

\* limpiarResultados
limpiarResultados ==
    /\ resultadosVisible' = FALSE
    /\ ocultarError
    /\ UNCHANGED <<mensajeError, elementos>>

\* mostrarError(mensaje)
mostrarError(mensaje) ==
    /\ mensajeError' = mensaje
    /\ errorVisible' = TRUE
    /\ resultadosVisible' = FALSE
    /\ UNCHANGED elementos

\* mostrarResultados(resultado)
mostrarResultados(resultado) ==
    IF ~ResultadoEsValido(resultado)
    THEN mostrarError(MsgResultadoInvalido)
    ELSE /\ elementos' = resultado
         /\ ocultarError
         /\ resultadosVisible' = TRUE
         /\ UNCHANGED mensajeError

\* the state after the constructors and GestorInterfaz.inicializar: the fields
\* empty, alternarCamposEntrada and limpiarResultados done
InitForm ==
    /\ entradaIP = <<>>
    /\ entradaHosts = <<>>
    /\ entradaMascara = <<>>
    /\ tipoEntrada \in TiposEntrada
    /\ mensajeError = ""
    /\ errorVisible = FALSE
    /\ resultadosVisible = FALSE
    /\ elementos = SinResultado
    /\ evento = "init"
    /\ envio = SinEnvio
    /\ llamada = SinLlamada

\* the 'input' listeners of the three fields; a field can be typed in while its
\* group is displayed (alternarCamposEntrada hides the other one)
EditarIP ==
    \E v \in IPsFormulario :
        /\ entradaIP' = v
        /\ limpiarResultados
        /\ evento' = "input"
        /\ UNCHANGED <<entradaHosts, entradaMascara, tipoEntrada, envio, llamada>>

EditarHosts ==
    \E v \in HostsFormulario :
        /\ tipoEntrada = "hosts"
        /\ entradaHosts' = v
        /\ limpiarResultados
        /\ evento' = "input"
        /\ UNCHANGED <<entradaIP, entradaMascara, tipoEntrada, envio, llamada>>

EditarMascara ==
    \E v \in MascarasFormulario :
        /\ tipoEntrada # "hosts"
        /\ entradaMascara' = v
        /\ limpiarResultados
        /\ evento' = "input"
        /\ UNCHANGED <<entradaIP, entradaHosts, tipoEntrada, envio, llamada>>

\* the 'change' listener of the selector: alternarCamposEntrada
CambiarTipo ==
    \E t \in TiposEntrada :
        /\ t # tipoEntrada
        /\ tipoEntrada' = t
        /\ IF t = "hosts"
           THEN entradaMascara' = <<>> /\ UNCHANGED entradaHosts
           ELSE entradaHosts' = <<>> /\ UNCHANGED entradaMascara
        /\ limpiarResultados
        /\ evento' = "change"
        /\ UNCHANGED <<entradaIP, envio, llamada>>

\* the 'submit' listener: manejarEnvioFormulario
Enviar ==
    LET datos == obtenerDatosFormulario
        validacion == validarEntradaCompleta(datos.ip, datos.tipoEntrada, datos.mascara,
                                             datos.numeroHosts)
    IN  /\ evento' = "submit"
        /\ UNCHANGED <<entradaIP, entradaHosts, entradaMascara, tipoEntrada, llamada>>
        /\ IF validacion.lanza
           THEN /\ mostrarError(MsgErrorInterno)
                /\ envio' = [datos |-> datos, validacion |-> validacion,
                             calculo |-> "ninguno"]
           ELSE IF ~validacion.esValido
           THEN /\ mostrarError(validacion.mensaje)
                /\ envio' = [datos |-> datos, validacion |-> validacion,
                             calculo |-> "ninguno"]
           ELSE IF datos.tipoEntrada = "hosts"
           THEN /\ mostrarResultados(calcularDesdeHosts(datos.ip, datos.numeroHosts.num))
                /\ envio' = [datos |-> datos, validacion |-> validacion,
                             calculo |-> "calcularDesdeHosts"]
           ELSE /\ mostrarResultados(calcularDesdeMascara(datos.ip, datos.mascara))
                /\ envio' = [datos |-> datos, validacion |-> validacion,
                             calculo |-> "calcularDesdeMascara"]

NextForm == EditarIP \/ EditarHosts \/ EditarMascara \/ CambiarTipo \/ Enviar

SpecForm == InitForm /\ [][NextForm]_vars

----------------------------------------------------------------------------
(* The library called directly: the arguments are drawn from the samples below *)

\* the most zeros written in front of an octet, the most pieces of a malformed
\* address, and how far around each power of two the host counts are taken
MaxRelleno == 2
MaxPartes == 5
Margen == 1

ValoresPrimerOcteto == {0, 1, 10, 127, 128, 192, 255}
ValoresOcteto == {0, 1, 100, 255}

\* well-formed addresses, written without leading zeros
DireccionesCanonicas ==
    {Dir(a, b, c, d) : a \in ValoresPrimerOcteto, b \in ValoresOcteto,
                       c \in ValoresOcteto, d \in ValoresOcteto}

\* the ways to write one piece: values in and out of 0..255 with leading zeros,
\* the empty piece, white space and a letter
TextosOcteto ==
    {Repeat("0", z) \o DecimalString(v) :
        z \in 0..MaxRelleno, v \in {0, 1, 10, 64, 199, 200, 249, 250, 255, 256, 260, 300, 999}}
    \cup {<<>>, <<"a">>, <<"1", "a">>, <<" ", "1">>, <<"-", "1">>}

PiezasBase ==
    {<<DecimalString(a), DecimalString(b), DecimalString(c), DecimalString(d)>> :
        <<a, b, c, d>> \in {<<192, 168, 1, 100>>, <<0, 0, 0, 0>>, <<255, 255, 255, 255>>,
                            <<255, 255, 255, 0>>, <<10, 0, 0, 0>>}}

\* one piece of a well-formed address rewritten, and addresses of 0..MaxPartes pieces
DireccionesAlteradas ==
    {Join([b EXCEPT ![i] = t]) : b \in PiezasBase, i \in 1..4, t \in TextosOcteto}
    \cup {Join([i \in 1..n |-> t]) : n \in 0..MaxPartes, t \in {<<"1">>, <<"0">>, <<"2", "5", "5">>}}

\* the octets of the mask with p leading one bits
OctetoDePrefijo(p, i) ==
    LET unos == IF p - 8 * (i - 1) < 0 THEN 0
                ELSE IF p - 8 * (i - 1) > 8 THEN 8 ELSE p - 8 * (i - 1)
    IN  256 - 2 ^ (8 - unos)

MascaraDePrefijo(p) ==
    Dir(OctetoDePrefijo(p, 1), OctetoDePrefijo(p, 2), OctetoDePrefijo(p, 3),
        OctetoDePrefijo(p, 4))

\* every contiguous mask, some with a one after a zero, some with leading zeros
MascarasMuestra ==
    {MascaraDePrefijo(p) : p \in 0..32}
    \cup {Dir(255, 0, 255, 0), Dir(0, 255, 0, 0), Dir(255, 255, 255, 1), Dir(254, 255, 0, 0),
          Dir(255, 253, 0, 0), Dir(255, 255, 128, 128), Dir(127, 0, 0, 0), Dir(255, 255, 0, 255)}
    \cup {Join(<<DecimalString(255), DecimalString(255), DecimalString(255),
                 Repeat("0", z) \o DecimalString(0)>>) : z \in 1..MaxRelleno}

TextosMuestra == DireccionesCanonicas \cup DireccionesAlteradas \cup MascarasMuestra

DireccionesValidas == {s \in DireccionesCanonicas \cup DireccionesAlteradas :
                          esDireccionIPValida(s)}

MascarasValidas == {m \in MascarasMuestra : esMascaraSubredValida(m)}

\* host counts around every power of two up to 2^25, and a few others
NumerosHosts ==
    {2 ^ k - 2 + d : k \in 1..25, d \in (0 - Margen)..Margen} \cup {-5, 50, 1000}

\* the values handed to esNumeroHostsValido: numbers, and strings of every kind
ValoresHosts ==
    {JSNum(n) : n \in NumerosHosts}
    \cup {JSStr(DecimalString(n)) : n \in {0, 1, 50, MaxHosts, MaxHosts + 1}}
    \cup {JSStr(s) : s \in {<<>>, <<"a">>, <<"-", "5">>, <<"+", "5">>, <<" ", "7">>,
                           <<"1", ".", "5">>, <<"1", "2", "a">>, <<"0", "0", "7">>,
                           <<"0", ".", "9">>, <<"-">>, <<".", "5">>}}

HostsValidos == {n \in NumerosHosts : esNumeroHostsValido(JSNum(n))}

\* a call: the function, its arguments (those it does not take left at their
\* defaults) and what it returned
Llamada(fn, ip, mascara, hosts, tipo, ret) ==
    [fn |-> fn, ip |-> ip, mascara |-> mascara, hosts |-> hosts, tipo |-> tipo,
     numero |-> Num(0), ret |-> ret]

\* the arguments of validarEntradaCompleta
IPsValidar ==
    {<<>>, <<" ">>, Dir(0, 0, 0, 0), Dir(255, 255, 255, 255), Dir(192, 168, 1, 100),
     Dir(256, 1, 1, 1), Join(<<<<"0", "0">>, <<"0">>, <<"0">>, <<"0">>>>)}

MascarasValidar ==
    {<<>>, <<" ">>, Dir(255, 255, 255, 0), Dir(255, 0, 255, 0), Dir(255, 255, 255, 255)}

HostsValidar ==
    {JSNum(0), JSNum(50), JSNum(-5), JSNum(MaxHosts), JSNum(MaxHosts + 1),
     JSStr(<<>>), JSStr(<<"5", "0">>), JSStr(<<"0">>), JSStr(<<"a">>), JSStr(<<" ">>)}

\* addresses for the calculations made from a host count
DireccionesPorHosts ==
    {Dir(192, 168, 1, 100), Dir(10, 0, 0, 50), Dir(127, 255, 255, 255), Dir(128, 0, 0, 0),
     Dir(255, 255, 255, 254), Dir(0, 0, 0, 1), Dir(223, 100, 255, 1)}

\* a call is made when no call is pending
LlamarEsDireccionIPValida ==
    /\ llamada = SinLlamada
    /\ \E s \in TextosMuestra :
          llamada' = Llamada("esDireccionIPValida", s, <<>>, JSNum(0), "",
                             esDireccionIPValida(s))
    /\ UNCHANGED formVars

LlamarEsMascaraSubredValida ==
    /\ llamada = SinLlamada
    /\ \E s \in TextosMuestra :
          llamada' = Llamada("esMascaraSubredValida", <<>>, s, JSNum(0), "",
                             esMascaraSubredValida(s))
    /\ UNCHANGED formVars

LlamarEsNumeroHostsValido ==
    /\ llamada = SinLlamada
    /\ \E h \in ValoresHosts :
          llamada' = Llamada("esNumeroHostsValido", <<>>, <<>>, h, "",
                             esNumeroHostsValido(h))
    /\ UNCHANGED formVars

LlamarValidarEntradaCompleta ==
    /\ llamada = SinLlamada
    /\ \E ip \in IPsValidar, t \in TiposEntrada, m \in MascarasValidar, h \in HostsValidar :
          llamada' = Llamada("validarEntradaCompleta", ip, m, h, t,
                             validarEntradaCompleta(ip, t, m, h))
    /\ UNCHANGED formVars

\* the calculations are called with validated arguments, as their contract asks
LlamarCalcularSubredCompleta ==
    /\ llamada = SinLlamada
    /\ \E ip \in DireccionesValidas, m \in MascarasValidas :
          llamada' = Llamada("calcularSubredCompleta", ip, m, JSNum(0), "",
                             calcularSubredCompleta(ip, m))
    /\ UNCHANGED formVars

LlamarCalcularMascaraDesdeHosts ==
    /\ llamada = SinLlamada
    /\ \E h \in HostsValidos :
          llamada' = Llamada("calcularMascaraDesdeHosts", <<>>, <<>>, JSNum(h), "",
                             calcularMascaraDesdeHosts(h))
    /\ UNCHANGED formVars

\* host counts written as text that esNumeroHostsValido accepts
TextosHostsValidos ==
    {t \in {DecimalString(n) : n \in {0, 1, 50, MaxHosts, MaxHosts + 1}}
              \cup {<<"0", "0", "7">>} :
        esNumeroHostsValido(JSStr(t))}

LlamarCalcularMascaraDesdeHostsTexto ==
    /\ llamada = SinLlamada
    /\ \E t \in TextosHostsValidos :
          llamada' = Llamada("calcularMascaraDesdeHostsTexto", <<>>, <<>>, JSStr(t), "",
                             calcularMascaraDesdeHostsTexto(t))
    /\ UNCHANGED formVars

LlamarCalcularHostsDesdeMascara ==
    /\ llamada = SinLlamada
    /\ \E m \in MascarasValidas :
          llamada' = Llamada("calcularHostsDesdeMascara", <<>>, m, JSNum(0), "",
                             calcularHostsDesdeMascara(m))
    /\ UNCHANGED formVars

LlamarCalcularSubredPorHosts ==
    /\ llamada = SinLlamada
    /\ \E ip \in DireccionesPorHosts, h \in HostsValidos :
          llamada' = Llamada("calcularSubredPorHosts", ip, <<>>, JSNum(h), "",
                             calcularSubredPorHosts(ip, h))
    /\ UNCHANGED formVars

LlamarIpANumero ==
    /\ llamada = SinLlamada
    /\ \E ip \in DireccionesValidas :
          llamada' = Llamada("ipANumero", ip, <<>>, JSNum(0), "", ipANumero(ip))
    /\ UNCHANGED formVars

\* numeroAIp is called on the number ipANumero returned
LlamarNumeroAIp ==
    /\ llamada.fn = "ipANumero"
    /\ llamada' = [Llamada("numeroAIp", llamada.ip, <<>>, JSNum(0), "",
                           numeroAIp(llamada.ret)) EXCEPT !.numero = llamada.ret]
    /\ UNCHANGED formVars

\* the most subnets asked of dividirEnSubredes and the longest list of requirements
MaxSubredes == 9
MaxLista == 3

\* addresses to split, with the first octet on both sides of 128
DireccionesDividir ==
    {Dir(192, 168, 1, 0), Dir(192, 168, 1, 100), Dir(10, 0, 0, 50), Dir(128, 0, 0, 1),
     Dir(255, 255, 255, 254), Dir(127, 255, 255, 255)}

LlamarDividirEnSubredes ==
    /\ llamada = SinLlamada
    /\ \E ip \in DireccionesDividir, m \in MascarasValidas, n \in 1..MaxSubredes :
          llamada' = [Llamada("dividirEnSubredes", ip, m, JSNum(0), "",
                              dividirEnSubredes(ip, m, n)) EXCEPT !.numero = Num(n)]
    /\ UNCHANGED formVars

\* the addresses asked about: the one the subnet was computed from, its network
\* and broadcast, the addresses just outside, and two fixed ones
Candidatas(ip, ipRed, ipBroadcast) ==
    {ip, ipRed, ipBroadcast, Dir(192, 168, 1, 100), Dir(200, 0, 0, 0),
     numeroAIp(NumSub(ipANumero(ipRed), Num(1))),
     numeroAIp(NumAdd(ipANumero(ipBroadcast), Num(1)))}

\* ipEstaEnSubred is asked about x for the network of (origen, mascara)
LlamarIpEstaEnSubred ==
    /\ llamada = SinLlamada
    /\ \E origen \in DireccionesPorHosts, m \in MascarasValidas :
          \E ipRed \in {calcularIpRed(origen, m)} :
              \E ipBroadcast \in {calcularIpBroadcast(ipRed, m)} :
                  \E x \in Candidatas(origen, ipRed, ipBroadcast) :
                      llamada' = Llamada("ipEstaEnSubred", x, m, JSNum(0), "",
                                         [origen |-> origen, ipRed |-> ipRed,
                                          esta |-> ipEstaEnSubred(x, ipRed, m)])
    /\ UNCHANGED formVars

\* host requirements, and the lists of at most MaxLista of them
Requisitos == {0, 1, 2, 50, 62, 1000, MaxHosts}

ListasRequisitos == UNION {[1..n -> Requisitos] : n \in 0..MaxLista}

LlamarOptimizarSubredes ==
    /\ llamada = SinLlamada
    /\ \E lista \in ListasRequisitos :
          llamada' = Llamada("optimizarSubredes", <<>>, <<>>, JSNum(0), "",
                             [listaHosts |-> lista, salida |-> optimizarSubredes(lista)])
    /\ UNCHANGED formVars

\* addresses with the first octet at the ends of every class
DireccionesClase ==
    {Dir(a, 0, 0, 1) : a \in {0, 1, 126, 127, 128, 191, 192, 223, 224, 239, 240, 255}}
    \cup {Join(<<<<"0", "1", "0">>, <<"0">>, <<"0">>, <<"1">>>>),
          Join(<<<<"0", "0">>, <<"0">>, <<"0">>, <<"1">>>>)}

LlamarObtenerClaseIP ==
    /\ llamada = SinLlamada
    /\ \E ip \in TextosMuestra \cup DireccionesClase :
          llamada' = Llamada("obtenerClaseIP", ip, <<>>, JSNum(0), "", obtenerClaseIP(ip))
    /\ UNCHANGED formVars

\* the caller takes the result
Retornar ==
    /\ llamada # SinLlamada
    /\ llamada' = SinLlamada
    /\ UNCHANGED formVars

\* the library is called with the form left as it is after construction
InitLib == InitForm /\ tipoEntrada = "hosts"

NextLib ==
    \/ LlamarEsDireccionIPValida
    \/ LlamarEsMascaraSubredValida
    \/ LlamarEsNumeroHostsValido
    \/ LlamarValidarEntradaCompleta
    \/ LlamarCalcularSubredCompleta
    \/ LlamarCalcularMascaraDesdeHosts
    \/ LlamarCalcularMascaraDesdeHostsTexto
    \/ LlamarCalcularHostsDesdeMascara
    \/ LlamarCalcularSubredPorHosts
    \/ LlamarIpANumero
    \/ LlamarNumeroAIp
    \/ LlamarDividirEnSubredes
    \/ LlamarIpEstaEnSubred
    \/ LlamarOptimizarSubredes
    \/ LlamarObtenerClaseIP
    \/ Retornar

Spec == InitLib /\ [][NextLib]_vars

----------------------------------------------------------------------------
(* What the claims are stated with *)

\* the four octet values of a dotted address, most significant first
ValoresDe(s) == [i \in 1..4 |-> DecimalValue(Split(s)[i])]

\* an address as the unsigned 32-bit value <<high half, low half>>
U32(s) ==
    LET o == ValoresDe(s)
    IN  <<o[1] * 256 + o[2], o[3] * 256 + o[4]>>

\* u + 1 and u - 1, without wrapping
Siguiente(u) == IF u[2] = Base - 1 THEN <<u[1] + 1, 0>> ELSE <<u[1], u[2] + 1>>

Anterior(u) == IF u[2] = 0 THEN <<u[1] - 1, Base - 1>> ELSE <<u[1], u[2] - 1>>

\* ip AND mask and net OR (NOT mask), octet by octet, for a mask of ones then
\* zeros: an octet m of such a mask keeps the multiples of 256 - m
RedEsperada(ip, mascara) ==
    LET a == ValoresDe(ip)
        m == ValoresDe(mascara)
    IN  [i \in 1..4 |-> a[i] - (a[i] % (256 - m[i]))]

BroadcastEsperado(ip, mascara) ==
    LET m == ValoresDe(mascara)
    IN  [i \in 1..4 |-> RedEsperada(ip, mascara)[i] + (255 - m[i])]

\* the prefix length of a mask of ones then zeros
PrefijoDe(mascara) ==
    CHOOSE p \in 0..32 : \A i \in 1..4 : ValoresDe(mascara)[i] = OctetoDePrefijo(p, i)

\* 2^(32 - p) - 2 for 1 <= p <= 31
HostsEsperados(p) ==
    IF p <= 16 THEN NumPair(2 ^ (16 - p) - 1, Base - 2) ELSE NumPair(0, 2 ^ (32 - p) - 2)

\* the least number of host bits b with 2^b - 2 >= h
BitsNecesarios(h) ==
    CHOOSE b \in 0..30 : 2 ^ b - 2 >= h /\ \A c \in 0..(b - 1) : 2 ^ c - 2 < h

\* bit j (0 the most significant) of the 32-bit value of a dotted address
BitDe(s, j) == (ValoresDe(s)[(j \div 8) + 1] \div (2 ^ (7 - (j % 8)))) % 2

SinUnoTrasCero(s) == \A i \in 0..31, j \in 0..31 : i < j /\ BitDe(s, i) = 0 => BitDe(s, j) = 0

MensajesIP == {MsgIPVacia, MsgIPCero, MsgIPBroadcast, MsgIPInvalida}

MensajesHosts == {MsgHostsVacio, MsgHostsMenor, MsgHostsMayor, MsgHostsInvalido}

MensajesMascara == {MsgMascaraVacia, MsgMascaraInvalida}

----------------------------------------------------------------------------
(* C1 *)

\* C1: for every validated ip and mask, calcularSubredCompleta returns, read as
\* unsigned 32-bit values, networkIP = ip AND mask, broadcastIP = networkIP OR
\* NOT mask, firstHostIP = networkIP + 1, lastHostIP = broadcastIP - 1 and
\* gatewayIP = firstHostIP, also when the first octet is 128 or more.
C1_SubredCompleta ==
    llamada.fn = "calcularSubredCompleta" =>
        /\ ValoresDe(llamada.ret.networkIP) = RedEsperada(llamada.ip, llamada.mascara)
        /\ ValoresDe(llamada.ret.broadcastIP) = BroadcastEsperado(llamada.ip, llamada.mascara)
        /\ U32(llamada.ret.firstHostIP) = Siguiente(U32(llamada.ret.networkIP))
        /\ U32(llamada.ret.lastHostIP) = Anterior(U32(llamada.ret.broadcastIP))
        /\ U32(llamada.ret.gatewayIP) = U32(llamada.ret.firstHostIP)

\* an address with the top bit set in a subnet whose network has it set too
C1_Witness ==
    /\ llamada.fn = "calcularSubredCompleta"
    /\ ValoresDe(llamada.ip)[1] >= 128
    /\ ValoresDe(llamada.ret.networkIP)[1] >= 128
    /\ llamada.ret.networkIP # llamada.ip

----------------------------------------------------------------------------
(* C2 *)

\* C2: for every host count h in 1..16777214, calcularMascaraDesdeHosts(h) is
\* the mask of ones then zeros with the least number b of zero bits such that
\* 2^b - 2 >= h (b = ceil(log2(h + 2))), and calcularSubredPorHosts uses it.
C2_MascaraDesdeHosts ==
    /\ llamada.fn = "calcularMascaraDesdeHosts" =>
          llamada.ret = MascaraDePrefijo(32 - BitsNecesarios(llamada.hosts.num))
    /\ llamada.fn = "calcularSubredPorHosts" =>
          llamada.ret.subnetMask = MascaraDePrefijo(32 - BitsNecesarios(llamada.hosts.num))

\* the largest host count, which needs all 24 host bits
C2_Witness ==
    /\ llamada.fn = "calcularMascaraDesdeHosts"
    /\ llamada.hosts.num = MaxHosts
    /\ llamada.ret = Dir(255, 0, 0, 0)

----------------------------------------------------------------------------
(* C3 *)

\* C3: for every valid mask of prefix length p, calcularHostsDesdeMascara
\* returns 2^(32 - p) - 2, and that is the totalHosts of calcularSubredCompleta.
C3_HostsDesdeMascara ==
    /\ llamada.fn = "calcularHostsDesdeMascara" =>
          llamada.ret = HostsEsperados(PrefijoDe(llamada.mascara))
    /\ llamada.fn = "calcularSubredCompleta" =>
          llamada.ret.totalHosts = HostsEsperados(PrefijoDe(llamada.mascara))

\* the mask 128.0.0.0, whose 2^31 - 2 hosts are in the result record
C3_Witness ==
    /\ llamada.fn = "calcularSubredCompleta"
    /\ llamada.mascara = Dir(128, 0, 0, 0)
    /\ llamada.ret.totalHosts = NumPair(Base \div 2 - 1, Base - 2)

----------------------------------------------------------------------------
(* C4 *)

\* C4: a validation failure is returned with the message of its kind and never
\* thrown: on a submit with a valid IP in hosts mode and a host count outside
\* 1..16777214, validarEntradaCompleta returns esValido false with a host-count
\* message, and the form shows that message.
C4_FalloDeHostsDevuelto ==
    ( /\ evento = "submit"
      /\ esDireccionIPValida(envio.datos.ip)
      /\ envio.datos.tipoEntrada = "hosts"
      /\ (envio.datos.numeroHosts.num < 1 \/ envio.datos.numeroHosts.num > MaxHosts) )
    => /\ ~envio.validacion.lanza
       /\ ~envio.validacion.esValido
       /\ envio.validacion.mensaje \in MensajesHosts
       /\ errorVisible
       /\ mensajeError = envio.validacion.mensaje

----------------------------------------------------------------------------
(* C5 *)

\* C5: validarEntradaCompleta checks the IP first: an invalid IP gives an
\* invalid outcome with an IP message whatever the mode, the mask and the host
\* count; with a valid IP the outcome is invalid exactly when the field of the
\* selected mode is, and the other field does not change it.
C5_IPPrimero ==
    llamada.fn = "validarEntradaCompleta" =>
        /\ ~esDireccionIPValida(llamada.ip) =>
              /\ ~llamada.ret.lanza /\ ~llamada.ret.esValido
              /\ llamada.ret.mensaje \in MensajesIP
              /\ \A t \in TiposEntrada, m \in MascarasValidar, h \in HostsValidar :
                    validarEntradaCompleta(llamada.ip, t, m, h) = llamada.ret
        /\ esDireccionIPValida(llamada.ip) /\ llamada.tipo = "hosts" =>
              /\ llamada.ret.esValido <=> esNumeroHostsValido(llamada.hosts)
              /\ \A m \in MascarasValidar :
                    validarEntradaCompleta(llamada.ip, llamada.tipo, m, llamada.hosts)
                        = llamada.ret
        /\ esDireccionIPValida(llamada.ip) /\ llamada.tipo = "mascara" =>
              /\ llamada.ret.esValido <=> esMascaraSubredValida(llamada.mascara)
              /\ \A h \in HostsValidar :
                    validarEntradaCompleta(llamada.ip, llamada.tipo, llamada.mascara, h)
                        = llamada.ret

\* 0.0.0.0 with a mask that is invalid too: the IP message is the one returned
C5_Witness ==
    /\ llamada.fn = "validarEntradaCompleta"
    /\ llamada.ip = Dir(0, 0, 0, 0)
    /\ llamada.tipo = "mascara"
    /\ llamada.mascara = Dir(255, 0, 255, 0)
    /\ llamada.ret.mensaje = MsgIPCero

----------------------------------------------------------------------------
(* C6 *)

\* C6: on every submit, whatever the mode, the calculation is invoked only with
\* an IP and a secondary field (the one it consumes) that pass validation; on a
\* validation failure no calculation runs, the validation message is shown and
\* the results are hidden; on success the result record is displayed.
C6_ValidarLuegoCalcular ==
    evento = "submit" =>
        /\ envio.calculo = "calcularDesdeHosts" =>
              /\ esDireccionIPValida(envio.datos.ip)
              /\ esNumeroHostsValido(envio.datos.numeroHosts)
        /\ envio.calculo = "calcularDesdeMascara" =>
              /\ esDireccionIPValida(envio.datos.ip)
              /\ esMascaraSubredValida(envio.datos.mascara)
        /\ envio.calculo = "ninguno" =>
              /\ errorVisible /\ ~resultadosVisible
              /\ mensajeError \in MensajesIP \cup MensajesHosts \cup MensajesMascara
        /\ envio.calculo # "ninguno" =>
              /\ resultadosVisible /\ ~errorVisible
              /\ elementos.networkIP = calcularIpRed(envio.datos.ip, elementos.subnetMask)

----------------------------------------------------------------------------
(* C7 *)

\* C7: esMascaraSubredValida(s) is true exactly when esDireccionIPValida accepts
\* s and the 32 bits of s, most significant first, have no 1 after a 0;
\* 255.0.255.0 is rejected.
C7_MascaraContigua ==
    llamada.fn = "esMascaraSubredValida" =>
        (llamada.ret <=> (esDireccionIPValida(llamada.mascara)
                            /\ SinUnoTrasCero(llamada.mascara)))

C7_Witness ==
    /\ llamada.fn = "esMascaraSubredValida"
    /\ llamada.mascara = Dir(255, 0, 255, 0)
    /\ llamada.ret = FALSE

----------------------------------------------------------------------------
(* C8 *)

\* a value that is an integer: a number, or a string that reads as an optional
\* sign and digits only
EsEntero(v) ==
    \/ v.tipo = "number"
    \/ LET t == Trim(v.str)
           u == IF t # <<>> /\ Head(t) \in {"-", "+"} THEN Tail(t) ELSE t
       IN  u # <<>> /\ AllDigits(u)

ValorEntero(v) ==
    IF v.tipo = "number" THEN v.num
    ELSE LET t == Trim(v.str)
         IN  IF Head(t) = "-" THEN 0 - DecimalValue(Tail(t))
             ELSE IF Head(t) = "+" THEN DecimalValue(Tail(t))
             ELSE DecimalValue(t)

\* C8: esNumeroHostsValido(h) is true exactly when h is an integer with
\* 1 <= h <= 16777214.
C8_HostsEnteroEnRango ==
    llamada.fn = "esNumeroHostsValido" =>
        (llamada.ret <=> (/\ EsEntero(llamada.hosts)
                          /\ ValorEntero(llamada.hosts) >= 1
                          /\ ValorEntero(llamada.hosts) <= MaxHosts))

----------------------------------------------------------------------------
(* C9 *)

\* the pieces of s are four decimal numerals of at most n digits with values in
\* 0..255, not all 0 and not all 255
CuatroOctetos(s, n) ==
    LET p == Split(s)
    IN  /\ Len(p) = 4
        /\ \A i \in 1..4 : p[i] # <<>> /\ AllDigits(p[i]) /\ Len(p[i]) <= n
                             /\ DecimalValue(p[i]) <= 255
        /\ ~(\A i \in 1..4 : DecimalValue(p[i]) = 0)
        /\ ~(\A i \in 1..4 : DecimalValue(p[i]) = 255)

\* C9 as stated: esDireccionIPValida(s) is true exactly when s is four
\* dot-separated decimal octets with values in 0..255 and the address is
\* neither 0.0.0.0 nor 255.255.255.255.
C9_Original ==
    llamada.fn = "esDireccionIPValida" =>
        (llamada.ret <=> CuatroOctetos(llamada.ip, MaxRelleno + 3))

\* C9 amended: ... exactly when s is four dot-separated decimal octets of one
\* to three digits each, with values in 0..255, and the address is neither
\* 0.0.0.0 nor 255.255.255.255.
C9_TresDigitos ==
    llamada.fn = "esDireccionIPValida" =>
        (llamada.ret <=> CuatroOctetos(llamada.ip, 3))

\* an accepted address with an octet written in three digits with leading zeros
C9_Witness ==
    /\ llamada.fn = "esDireccionIPValida"
    /\ llamada.ret = TRUE
    /\ \E i \in 1..4 : Len(Split(llamada.ip)[i]) = 3 /\ Head(Split(llamada.ip)[i]) = "0"

----------------------------------------------------------------------------
(* C10 *)

\* C10: for every string s that esDireccionIPValida accepts,
\* numeroAIp(ipANumero(s)) is exactly s.
C10_IdaYVuelta ==
    llamada.fn = "numeroAIp" /\ esDireccionIPValida(llamada.ip) =>
        llamada.ret = llamada.ip

----------------------------------------------------------------------------
(* What the claims about splitting and containment are stated with *)

\* unsigned 32-bit values <<high half, low half>>: order and sum
U32Menor(u, v) == u[1] < v[1] \/ (u[1] = v[1] /\ u[2] < v[2])

U32MenorIgual(u, v) == u = v \/ U32Menor(u, v)

U32Suma(u, v) == <<u[1] + v[1] + ((u[2] + v[2]) \div Base), (u[2] + v[2]) % Base>>

U32DeValores(o) == <<o[1] * 256 + o[2], o[3] * 256 + o[4]>>

\* 2^(32 - p) for 1 <= p <= 32
Bloque(p) == IF p <= 16 THEN <<2 ^ (16 - p), 0>> ELSE <<0, 2 ^ (32 - p)>>

\* the least b with 2^b >= n
BitsParaSubredes(n) ==
    CHOOSE b \in 0..31 : 2 ^ b >= n /\ \A c \in 0..(b - 1) : 2 ^ c < n

\* the prefix length the split of mascara into n gives
NuevoPrefijo(mascara, n) == PrefijoDe(mascara) + BitsParaSubredes(n)

----------------------------------------------------------------------------
(* C11 *)

\* C11: for every valid address a.b.c.d, ipANumero returns the unsigned 32-bit
\* value a*2^24 + b*2^16 + c*2^8 + d, never a negative number.
C11_SinNegativos ==
    llamada.fn = "ipANumero" /\ esDireccionIPValida(llamada.ip) =>
        /\ ~llamada.ret.nan
        /\ llamada.ret.hi >= 0
        /\ <<llamada.ret.hi, llamada.ret.lo>> = U32(llamada.ip)

----------------------------------------------------------------------------
(* C12 *)

\* C12: for every validated ip and mask and every n >= 1 for which the split
\* does not fail, dividirEnSubredes returns exactly n results whose network
\* addresses, as unsigned values, start at the network address of (ip, mask) and
\* grow by the block size 2^(32 - newPrefix) from each one to the next.
C12_BloquesContiguos ==
    llamada.fn = "dividirEnSubredes" /\ ~llamada.ret.lanza =>
        LET n == NumValue(llamada.numero)
            subredes == llamada.ret.subredes
            red(i) == U32(subredes[i].networkIP)
        IN  /\ Len(subredes) = n
            /\ red(1) = U32DeValores(RedEsperada(llamada.ip, llamada.mascara))
            /\ \A i \in 2..n :
                  /\ red(i) = U32Suma(red(i - 1), Bloque(NuevoPrefijo(llamada.mascara, n)))
                  /\ U32Menor(red(i - 1), red(i))
                  /\ red(i)[1] < Base

\* 128.0.0.0/1 split into three: 128.0.0.0, 160.0.0.0 and 192.0.0.0
C12_Witness ==
    /\ llamada.fn = "dividirEnSubredes"
    /\ llamada.ip = Dir(128, 0, 0, 1)
    /\ llamada.mascara = Dir(128, 0, 0, 0)
    /\ NumValue(llamada.numero) = 3
    /\ ~llamada.ret.lanza
    /\ llamada.ret.subredes[3].networkIP = Dir(192, 0, 0, 0)

----------------------------------------------------------------------------
(* C13 *)

\* C13: dividirEnSubredes fails with the capacity error exactly when the prefix
\* length of the mask plus ceil(log2(n)) is above 30, and then gives no list;
\* when the sum is at most 30 it returns a list.
C13_ErrorDeCapacidad ==
    llamada.fn = "dividirEnSubredes" =>
        LET n == NumValue(llamada.numero)
        IN  /\ llamada.ret.lanza <=> NuevoPrefijo(llamada.mascara, n) > 30
            /\ llamada.ret.lanza => llamada.ret.subredes = <<>>
            /\ ~llamada.ret.lanza => Len(llamada.ret.subredes) = n

\* a /28 split into five needs 31 bits
C13_Witness ==
    /\ llamada.fn = "dividirEnSubredes"
    /\ llamada.mascara = Dir(255, 255, 255, 240)
    /\ NumValue(llamada.numero) = 5
    /\ llamada.ret.lanza

----------------------------------------------------------------------------
(* C14 *)

\* C14: every result of dividirEnSubredes(ip, mask, n) carries the mask whose
\* prefix length is that of mask plus ceil(log2(n)); 192.168.1.0/24 split into 8
\* gives eight /27 subnets at 192.168.1.0, .32, ..., .224.
C14_MismaMascara ==
    llamada.fn = "dividirEnSubredes" /\ ~llamada.ret.lanza =>
        LET n == NumValue(llamada.numero)
            subredes == llamada.ret.subredes
        IN  /\ \A i \in 1..Len(subredes) :
                  subredes[i].subnetMask
                      = MascaraDePrefijo(NuevoPrefijo(llamada.mascara, n))
            /\ ( /\ llamada.ip = Dir(192, 168, 1, 0)
                 /\ llamada.mascara = Dir(255, 255, 255, 0)
                 /\ n = 8 )
               => /\ Len(subredes) = 8
                  /\ \A i \in 1..8 :
                        /\ subredes[i].networkIP = Dir(192, 168, 1, 32 * (i - 1))
                        /\ subredes[i].subnetMask = Dir(255, 255, 255, 224)

\* the split of 192.168.1.0/24 into 8
C14_Witness ==
    /\ llamada.fn = "dividirEnSubredes"
    /\ llamada.ip = Dir(192, 168, 1, 0)
    /\ llamada.mascara = Dir(255, 255, 255, 0)
    /\ NumValue(llamada.numero) = 8
    /\ llamada.ret.subredes[8].networkIP = Dir(192, 168, 1, 224)

----------------------------------------------------------------------------
(* C15 *)

\* C15: with net = calcularIpRed(ip, mask) and bc = calcularIpBroadcast(net, mask),
\* ipEstaEnSubred(x, net, mask) is true for x = net and x = ip, and is true for
\* an address x exactly when net <= x <= bc as unsigned 32-bit values.
C15_Contencion ==
    llamada.fn = "ipEstaEnSubred" =>
        LET x == llamada.ip
            origen == llamada.ret.origen
            net == U32DeValores(RedEsperada(origen, llamada.mascara))
            bc == U32DeValores(BroadcastEsperado(origen, llamada.mascara))
        IN  /\ llamada.ret.ipRed = calcularIpRed(origen, llamada.mascara)
            /\ calcularIpBroadcast(llamada.ret.ipRed, llamada.mascara)
                  = numeroAIp(NumPair(bc[1], bc[2]))
            /\ x \in {origen, llamada.ret.ipRed} => llamada.ret.esta
            /\ llamada.ret.esta <=> (U32MenorIgual(net, U32(x)) /\ U32MenorIgual(U32(x), bc))

\* the broadcast address of a subnet in the upper half of the address space
C15_Witness ==
    /\ llamada.fn = "ipEstaEnSubred"
    /\ llamada.mascara = Dir(128, 0, 0, 0)
    /\ llamada.ip = Dir(255, 255, 255, 255)
    /\ llamada.ret.ipRed = Dir(128, 0, 0, 0)
    /\ llamada.ret.esta

----------------------------------------------------------------------------
(* C16 *)

\* C16: the form submitted with IP 192.168.1.100 in hosts mode with 50 hosts
\* passes validation, runs calcularDesdeHosts and displays mask 255.255.255.192,
\* network 192.168.1.64, broadcast 192.168.1.127, first host 192.168.1.65, last
\* host 192.168.1.126, gateway 192.168.1.65 and 62 hosts.
C16_EscenarioUno ==
    ( /\ evento = "submit"
      /\ envio.datos.ip = Dir(192, 168, 1, 100)
      /\ envio.datos.tipoEntrada = "hosts"
      /\ envio.datos.numeroHosts = JSNum(50) )
    => /\ envio.validacion = Valido
       /\ envio.calculo = "calcularDesdeHosts"
       /\ resultadosVisible /\ ~errorVisible
       /\ elementos = ResultadoIp(Dir(192, 168, 1, 64), Dir(255, 255, 255, 192),
                                  Dir(192, 168, 1, 127), Dir(192, 168, 1, 65),
                                  Dir(192, 168, 1, 126), Dir(192, 168, 1, 65), Num(62))

\* the submit of 192.168.1.100 with "50" typed in the hosts field
C16_Witness ==
    /\ evento = "submit"
    /\ entradaIP = Dir(192, 168, 1, 100)
    /\ entradaHosts = <<"5", "0">>
    /\ tipoEntrada = "hosts"
    /\ envio.datos.numeroHosts = JSNum(50)
    /\ elementos.subnetMask = Dir(255, 255, 255, 192)

----------------------------------------------------------------------------
(* C17 *)

\* how many times v occurs in the sequence q
Veces(q, v) == Cardinality({i \in 1..Len(q) : q[i] = v})

\* C17: optimizarSubredes(list) returns as many entries as the list has; their
\* hostsRequeridos are the values of the list rearranged from the largest to the
\* least, and each entry carries the mask for its own requirement, the prefix
\* length of that mask and the number of hosts the mask leaves available.
C17_UnaEntradaPorRequisito ==
    llamada.fn = "optimizarSubredes" =>
        LET lista == llamada.ret.listaHosts
            salida == llamada.ret.salida
        IN  /\ Len(salida) = Len(lista)
            /\ \A i \in 1..(Len(salida) - 1) :
                  salida[i].hostsRequeridos >= salida[i + 1].hostsRequeridos
            /\ \A v \in Requisitos :
                  Veces([i \in 1..Len(salida) |-> salida[i].hostsRequeridos], v)
                      = Veces(lista, v)
            /\ \A i \in 1..Len(salida) :
                  LET prefijo == 32 - BitsNecesarios(salida[i].hostsRequeridos)
                  IN  /\ salida[i].mascara = MascaraDePrefijo(prefijo)
                      /\ salida[i].mascara
                            = calcularMascaraDesdeHosts(salida[i].hostsRequeridos)
                      /\ salida[i].notacionCIDR = prefijo
                      /\ salida[i].hostsDisponibles = HostsEsperados(prefijo)

\* 1, 16777214 and 50 come back as 16777214, 50 and 1
C17_Witness ==
    /\ llamada.fn = "optimizarSubredes"
    /\ llamada.ret.listaHosts = <<1, MaxHosts, 50>>
    /\ Len(llamada.ret.salida) = 3
    /\ llamada.ret.salida[1].hostsRequeridos = MaxHosts
    /\ llamada.ret.salida[1].mascara = Dir(255, 0, 0, 0)
    /\ llamada.ret.salida[3].hostsRequeridos = 1

----------------------------------------------------------------------------
(* C18 *)

\* the class of a first octet: A for 1..126, B for 128..191, C for 192..223,
\* D for 224..239, E for 240..255
ClaseDeOcteto(a) ==
    IF a \in 1..126 THEN "A"
    ELSE IF a \in 128..191 THEN "B"
    ELSE IF a \in 192..223 THEN "C"
    ELSE IF a \in 224..239 THEN "D"
    ELSE IF a \in 240..255 THEN "E"
    ELSE "ninguna"

\* C18: obtenerClaseIP(ip) returns null exactly when ip is not a valid address,
\* and for a valid address the class of its first octet.
C18_ClasePorOcteto ==
    llamada.fn = "obtenerClaseIP" =>
        /\ llamada.ret = "null" <=> ~esDireccionIPValida(llamada.ip)
        /\ ( /\ esDireccionIPValida(llamada.ip)
             /\ ClaseDeOcteto(ValoresDe(llamada.ip)[1]) # "ninguna" )
           => llamada.ret = ClaseDeOcteto(ValoresDe(llamada.ip)[1])

----------------------------------------------------------------------------
(* C19 *)

\* networkIP < firstHostIP <= lastHostIP < broadcastIP as unsigned values, and
\* at least one host
RangoNoVacio(r) ==
    /\ U32Menor(U32(r.networkIP), U32(r.firstHostIP))
    /\ U32MenorIgual(U32(r.firstHostIP), U32(r.lastHostIP))
    /\ U32Menor(U32(r.lastHostIP), U32(r.broadcastIP))
    /\ NumGeq(r.totalHosts, Num(1))

\* C19: for every input validarEntradaCompleta accepts, an ip with a mask in
\* mask mode or an ip with a host count in hosts mode, the computed result has
\* networkIP < firstHostIP <= lastHostIP < broadcastIP and totalHosts >= 1.
C19_RangoUtilizable ==
    /\ ( /\ llamada.fn = "calcularSubredCompleta"
         /\ validarEntradaCompleta(llamada.ip, "mascara", llamada.mascara,
                                   llamada.hosts).esValido )
       => RangoNoVacio(llamada.ret)
    /\ ( /\ llamada.fn = "calcularSubredPorHosts"
         /\ validarEntradaCompleta(llamada.ip, "hosts", llamada.mascara,
                                   llamada.hosts).esValido )
       => RangoNoVacio(llamada.ret)

----------------------------------------------------------------------------
(* C20 *)

----------------------------------------------------------------------------
(* C21 *)

\* C21: for every successful dividirEnSubredes(ip, mask, n) on a validated ip
\* and mask, the range from networkIP to broadcastIP of each returned subnet lies
\* inside the range from the network to the broadcast address of (ip, mask), and
\* the ranges of any two returned subnets have no address in common.
C21_DentroYDisjuntas ==
    llamada.fn = "dividirEnSubredes" /\ ~llamada.ret.lanza =>
        LET subredes == llamada.ret.subredes
            red(i) == U32(subredes[i].networkIP)
            difusion(i) == U32(subredes[i].broadcastIP)
            redPadre == U32DeValores(RedEsperada(llamada.ip, llamada.mascara))
            difusionPadre == U32DeValores(BroadcastEsperado(llamada.ip, llamada.mascara))
        IN  /\ U32(calcularIpRed(llamada.ip, llamada.mascara)) = redPadre
            /\ U32(calcularIpBroadcast(calcularIpRed(llamada.ip, llamada.mascara),
                                       llamada.mascara)) = difusionPadre
            /\ \A i \in 1..Len(subredes) :
                  /\ U32MenorIgual(redPadre, red(i))
                  /\ U32MenorIgual(red(i), difusion(i))
                  /\ U32MenorIgual(difusion(i), difusionPadre)
            /\ \A i, j \in 1..Len(subredes) :
                  i # j => U32Menor(difusion(i), red(j)) \/ U32Menor(difusion(j), red(i))

\* 255.255.255.254/29 split into two /30: the second one ends at the parent's
\* broadcast address 255.255.255.255
C21_Witness ==
    /\ llamada.fn = "dividirEnSubredes"
    /\ llamada.ip = Dir(255, 255, 255, 254)
    /\ llamada.mascara = Dir(255, 255, 255, 248)
    /\ NumValue(llamada.numero) = 2
    /\ ~llamada.ret.lanza
    /\ Len(llamada.ret.subredes) = 2
    /\ llamada.ret.subredes[1].broadcastIP = Dir(255, 255, 255, 251)
    /\ llamada.ret.subredes[2].networkIP = Dir(255, 255, 255, 252)
    /\ llamada.ret.subredes[2].broadcastIP = Dir(255, 255, 255, 255)

----------------------------------------------------------------------------
(* C22 *)

\* C22: in the form, after initialisation and after every sequence of submits,
\* field edits and mode changes, with the mostrarError, mostrarResultados and
\* limpiarResultados they run, the error message and the results section are
\* never both visible.
C22_NuncaAmbosVisibles == ~(errorVisible /\ resultadosVisible)

\* results on display after an error message had been shown: its text is still
\* in the element, which is hidden
C22_Witness ==
    /\ evento = "submit"
    /\ resultadosVisible
    /\ ~errorVisible
    /\ mensajeError \in MensajesIP \cup MensajesHosts \cup MensajesMascara

----------------------------------------------------------------------------
(* C23 *)

\* what a submit computes from the fields as they are now
CalculoActual ==
    IF obtenerDatosFormulario.tipoEntrada = "hosts"
    THEN calcularDesdeHosts(obtenerDatosFormulario.ip,
                            obtenerDatosFormulario.numeroHosts.num)
    ELSE calcularDesdeMascara(obtenerDatosFormulario.ip, obtenerDatosFormulario.mascara)

\* C23: in the form, whenever the results section is visible the values shown
\* are those computed from the current contents of the IP field, the mode
\* selector and the field of the mode, the last event being a submit that passed
\* validation; after an edit of a field or a mode change the results are hidden.
C23_ResultadosVigentes ==
    /\ resultadosVisible =>
          /\ evento = "submit"
          /\ envio.datos = obtenerDatosFormulario
          /\ envio.validacion.esValido
          /\ envio.calculo # "ninguno"
          /\ elementos = CalculoActual
    /\ evento \in {"input", "change"} => ~resultadosVisible

\* results in mask mode for an address typed with blanks around it, shown after
\* an earlier error message
C23_Witness ==
    /\ resultadosVisible
    /\ tipoEntrada = "mascara"
    /\ entradaIP = <<" ">> \o Dir(10, 0, 0, 50) \o <<" ">>
    /\ entradaMascara = Dir(255, 255, 255, 0)
    /\ elementos.networkIP = Dir(10, 0, 0, 0)
    /\ mensajeError # ""

====
